---------------------------- MODULE Spec2Model ----------------------------
(***************************************************************************)
(* A model of setup.py, the LaTeX bundle installer.                        *)
(*                                                                         *)
(* A path is a sequence of components; an absolute path starts with the    *)
(* component "/".  The file system is the pair (fs, dirs): fs maps every   *)
(* occupied non-directory path to a regular file or a symbolic link, dirs  *)
(* is the set of existing directories.  The content of a regular file      *)
(* stands for its bytes together with the metadata shutil.copy2 copies.    *)
(* One behaviour is a sequence of MaxRuns invocations of the script on the *)
(* same machine, each with its own command line.                           *)
(***************************************************************************)
EXTENDS Naturals, Sequences, FiniteSets, TLC

VARIABLES
    fs,               \* occupied non-directory paths -> file or link
    dirs,             \* existing directories
    manifest,         \* the JSON object stored in the texbundle.json file
    platform,         \* sys.platform
    isAdmin,          \* os.getuid() == 0 / IsUserAnAdmin()
    argvs,            \* the command line of each run
    run,              \* number of the current run
    pc,               \* position of the current run in the script
    exitCode,         \* the run's exit status, once pc = "exited"
    err,              \* the message or exception that ended the run
    args,             \* argparse result: install, uninstall, symlink, file
    cwd,              \* process working directory
    ROOT,             \* directory of the config file
    config_file,      \* file the configuration is read from
    config,           \* the manifest's fields after extraction
    texmf_dir,        \* destination of .sty, .cls and resources
    texstudio_dir,    \* destination of .cwl
    cat,              \* which of the four iter_files calls is running
    idx,              \* position in that call's file list
    snap              \* file system at the start of each run

vars == <<fs, dirs, manifest, platform, isAdmin, argvs, run, pc, exitCode, err,
          args, cwd, ROOT, config_file, config, texmf_dir, texstudio_dir,
          cat, idx, snap>>

-----------------------------------------------------------------------------
(* Bounds of the model *)

\* number of invocations of the script in one behaviour
MaxRuns == 2

\* number of symbolic links the operating system follows before ELOOP
MaxLinkDepth == 3

\* Python's None, where a path is expected
None == <<>>

-----------------------------------------------------------------------------
(* os.path *)

isabs(p) == Len(p) > 0 /\ p[1] = "/"

join(a, b) == IF isabs(b) THEN b ELSE a \o b

pardir == <<"..">>

RECURSIVE normpath(_)
normpath(p) ==
    IF Len(p) = 0 THEN p
    ELSE LET q == normpath(SubSeq(p, 1, Len(p) - 1))
             c == p[Len(p)]
         IN  IF c # ".." THEN Append(q, c)
             ELSE IF Len(q) > 1 THEN SubSeq(q, 1, Len(q) - 1)
             ELSE q

abspath(p) == normpath(join(cwd, p))

basename(p) == p[Len(p)]

\* every directory on the way to p, p included
Prefixes(p) == { SubSeq(p, 1, n) : n \in 1..Len(p) }

-----------------------------------------------------------------------------
(* The file system *)

File(c) == [kind |-> "file", content |-> c]
Link(t) == [kind |-> "link", content |-> t]

\* os.path.lexists: something occupies the path itself
lexists(f, d, p) == p \in DOMAIN f \/ p \in d

\* The path a name leads to once up to n symbolic links are followed;
\* None when the chain is longer (ELOOP)
RECURSIVE follow(_, _, _)
follow(f, p, n) ==
    IF p \in DOMAIN f /\ f[p].kind = "link"
    THEN IF n = 0 THEN None ELSE follow(f, f[p].content, n - 1)
    ELSE p

realpath(f, p) == follow(f, join(cwd, p), MaxLinkDepth)

\* os.path.isfile follows links; a dangling or looping link is not a file
isfile(f, p) ==
    LET q == realpath(f, p)
    IN  q # None /\ q \in DOMAIN f /\ f[q].kind = "file"

\* os.path.isdir
isdir(d, p) == p # None /\ join(cwd, p) \in d

\* os.makedirs(p, exist_ok=True)
makedirs(f, d, p) ==
    IF \E q \in Prefixes(p) : q \in DOMAIN f
    THEN [fs |-> f, dirs |-> d, err |-> "FileExistsError"]
    ELSE [fs |-> f, dirs |-> d \cup Prefixes(p), err |-> ""]

\* os.remove(p): unlinks the name, never the file a link points at
remove(f, d, p) ==
    IF p \in DOMAIN f
    THEN [fs |-> [q \in DOMAIN f \ {p} |-> f[q]], dirs |-> d, err |-> ""]
    ELSE IF p \in d
    THEN [fs |-> f, dirs |-> d, err |-> "IsADirectoryError"]
    ELSE [fs |-> f, dirs |-> d, err |-> "FileNotFoundError"]

\* Writing content c at the name p: open(p, "wb") follows links and
\* creates the file a dangling link points at
write(f, d, p, c) ==
    LET q == follow(f, p, MaxLinkDepth)
    IN  IF q = None
        THEN [fs |-> f, dirs |-> d, err |-> "OSError"]
        ELSE IF q \in d
        THEN [fs |-> f, dirs |-> d, err |-> "IsADirectoryError"]
        ELSE IF SubSeq(q, 1, Len(q) - 1) \notin d
        THEN [fs |-> f, dirs |-> d, err |-> "FileNotFoundError"]
        ELSE [fs |-> [r \in DOMAIN f \cup {q} |-> IF r = q THEN File(c) ELSE f[r]],
              dirs |-> d, err |-> ""]

\* shutil.copy2(src, dst): content and metadata of src, links followed
copy2(f, d, src, dst) ==
    LET to == IF dst \in d THEN Append(dst, basename(src)) ELSE dst
        s  == follow(f, src, MaxLinkDepth)
    IN  IF ~isfile(f, src)
        THEN [fs |-> f, dirs |-> d, err |-> "FileNotFoundError"]
        ELSE IF follow(f, to, MaxLinkDepth) = s
        THEN [fs |-> f, dirs |-> d, err |-> "SameFileError"]
        ELSE write(f, d, to, f[s].content)

\* os.symlink(src, dst)
symlink(f, d, src, dst) ==
    IF lexists(f, d, dst)
    THEN [fs |-> f, dirs |-> d, err |-> "FileExistsError"]
    ELSE IF SubSeq(dst, 1, Len(dst) - 1) \notin d
    THEN [fs |-> f, dirs |-> d, err |-> "FileNotFoundError"]
    ELSE [fs |-> [r \in DOMAIN f \cup {dst} |-> IF r = dst THEN Link(src) ELSE f[r]],
          dirs |-> d, err |-> ""]

-----------------------------------------------------------------------------
(* The machine the script runs on *)

HOME == <<"/", "home">>

\* the shell's directory when the script is started: the bundle's directory
Bundle == <<"/", "w", "b">>

ManifestPath == Append(Bundle, "texbundle.json")

\* JSON values: a string holds a name or a path, a list holds base names
Str(p) == [type |-> "str", val |-> p]
List(l) == [type |-> "list", val |-> l]
Num == [type |-> "int", val |-> <<>>]

Keys == {"name", "sty", "cls", "res", "sty-dir", "cls-dir", "res-dir", "cwl-dir"}

\* A command line; empty stands for len(sys.argv) == 1
Argv(i, u, s, f) ==
    [empty |-> FALSE, install |-> i, uninstall |-> u, symlink |-> s, file |-> f]

NoArgv ==
    [empty |-> TRUE, install |-> FALSE, uninstall |-> FALSE, symlink |-> FALSE,
     file |-> <<"texbundle.json">>]

NoConfig ==
    [bundle_name |-> None, sty_list |-> <<>>, cls_list |-> <<>>, res_list |-> <<>>,
     sty_source_dir |-> None, cls_source_dir |-> None,
     res_source_dir |-> None, cwl_source_dir |-> None]

NoArgs == [install |-> FALSE, uninstall |-> FALSE, symlink |-> FALSE, file |-> None]

-----------------------------------------------------------------------------
(* Helpers of the script *)

\* How a step leaves the control state of the run
Ctl(p, code, e, c, i) ==
    pc' = p /\ exitCode' = code /\ err' = e /\ cat' = c /\ idx' = i

\* exit(code), or an uncaught exception (exit status 1)
Exit(code, e) == Ctl("exited", code, e, cat, idx)

Goto(p) == Ctl(p, exitCode, err, cat, idx)

resolve_full_path(path) == IF isabs(path) THEN path ELSE join(ROOT, path)

\* get_value returning a value of the wrong type when the key is optional
get_value_lenient(mapping, key, value_type, required, default) ==
    IF key \notin DOMAIN mapping
    THEN IF required
         THEN [ok |-> FALSE, val |-> None, err |-> "Missing required key"]
         ELSE [ok |-> TRUE, val |-> default, err |-> ""]
    ELSE IF mapping[key].type # value_type /\ required
    THEN [ok |-> FALSE, val |-> None, err |-> "Expected type"]
    ELSE [ok |-> TRUE, val |-> mapping[key].val, err |-> ""]

get_value(mapping, key, value_type, required, default) ==
    IF key \notin DOMAIN mapping
    THEN IF required
         THEN [ok |-> FALSE, val |-> None, err |-> "Missing required key"]
         ELSE [ok |-> TRUE, val |-> default, err |-> ""]
    ELSE IF mapping[key].type # value_type
    THEN [ok |-> FALSE, val |-> None, err |-> "Expected type"]
    ELSE [ok |-> TRUE, val |-> mapping[key].val, err |-> ""]

\* install_file of symlink mode
install_file_symlink(f, d, from_file, to_file) ==
    LET from == resolve_full_path(from_file)
        to   == resolve_full_path(to_file)
        r    == IF isfile(f, to) THEN remove(f, d, to)
                ELSE [fs |-> f, dirs |-> d, err |-> ""]
    IN  IF r.err # "" THEN r ELSE symlink(r.fs, r.dirs, from, to)

\* install_file of copy mode
install_file_copy(f, d, from_file, to_file) ==
    LET from == resolve_full_path(from_file)
        to   == resolve_full_path(to_file)
        r    == IF isfile(f, to) THEN remove(f, d, to)
                ELSE [fs |-> f, dirs |-> d, err |-> ""]
    IN  IF r.err # "" THEN r ELSE copy2(r.fs, r.dirs, from, to)

\* the method selection ignored: files are copied in symlink mode too
install_file_always_copy(f, d, from_file, to_file) ==
    install_file_copy(f, d, from_file, to_file)

install_file(f, d, from_file, to_file) ==
    IF args.symlink THEN install_file_symlink(f, d, from_file, to_file)
    ELSE install_file_copy(f, d, from_file, to_file)

\* the test of line 351 left out: no entry is skipped
source_missing_never(f, source) == FALSE

\* line 351: an entry whose source is no regular file is skipped
source_missing(f, source) == ~isfile(f, source)

\* the test of line 358 made on the source instead of the destination
dest_missing_wrong(f, dest) == ~isfile(f, join(ROOT, <<"texmf", basename(dest)>>))

\* line 358: an entry whose destination is no regular file is skipped
dest_missing(f, dest) == ~isfile(f, dest)

\* The arguments of the four iter_files calls
Category(c) ==
    CASE c = 1 -> [files |-> config.sty_list, from_dir |-> config.sty_source_dir,
                   to_dir |-> texmf_dir, suffix |-> ".sty"]
      [] c = 2 -> [files |-> config.cls_list, from_dir |-> config.cls_source_dir,
                   to_dir |-> texmf_dir, suffix |-> ".cls"]
      [] c = 3 -> [files |-> config.res_list, from_dir |-> config.res_source_dir,
                   to_dir |-> texmf_dir, suffix |-> ""]
      [] OTHER -> [files |-> config.sty_list \o config.cls_list,
                   from_dir |-> config.cwl_source_dir,
                   to_dir |-> texstudio_dir, suffix |-> ".cwl"]

NumCategories == 4

\* source and dest of entry i of call c, as iter_files computes them
SourceOf(c, i) ==
    resolve_full_path(join(Category(c).from_dir,
                           <<Category(c).files[i] \o Category(c).suffix>>))

DestOf(c, i) ==
    resolve_full_path(join(Category(c).to_dir,
                           <<Category(c).files[i] \o Category(c).suffix>>))

\* Control after iter_files call c returned: the next call, or the end
Return(c) ==
    IF c = NumCategories THEN Ctl("exited", 0, "", c, 0)
    ELSE Ctl("iter", exitCode, err, c + 1, 0)

-----------------------------------------------------------------------------
(* The script, top to bottom *)

\* lines 106-114
ParseArgs ==
    /\ pc = "start"
    /\ LET a == argvs[run]
       IN  IF a.empty
           THEN Exit(0, "help") /\ UNCHANGED args
           ELSE /\ args' = [install |-> a.install, uninstall |-> a.uninstall,
                            symlink |-> a.symlink, file |-> a.file]
                /\ IF ~(a.install \/ a.uninstall)
                   THEN Exit(1, "Please specify either --install or --uninstall")
                   ELSE Goto("root")
    /\ UNCHANGED <<fs, dirs, manifest, platform, isAdmin, argvs, run, cwd, ROOT,
                   config_file, config, texmf_dir, texstudio_dir, snap>>

\* lines 130-135
ResolveRoot ==
    /\ pc = "root"
    /\ LET file == abspath(args.file)
           root == normpath(join(file, pardir))
       IN  /\ args' = [args EXCEPT !.file = file]
           /\ ROOT' = root
           /\ IF root \in dirs
              THEN cwd' = root /\ Goto("read")
              ELSE cwd' = cwd /\ Exit(1, "FileNotFoundError")
    /\ UNCHANGED <<fs, dirs, manifest, platform, isAdmin, argvs, run,
                   config_file, config, texmf_dir, texstudio_dir, snap>>

\* lines 142-154; the manifest is the only JSON file of the machine
ReadConfig ==
    /\ pc = "read"
    /\ LET c1 == args.file
           c2 == IF isfile(fs, c1) THEN c1 ELSE join(c1, <<"texbundle.json">>)
       IN  /\ config_file' = c2
           /\ IF ~isfile(fs, c2)
              THEN Exit(1, "Configuration file is missing")
              ELSE IF realpath(fs, c2) # ManifestPath
              THEN Exit(1, "JSONDecodeError")
              ELSE Goto("lists")
    /\ UNCHANGED <<fs, dirs, manifest, platform, isAdmin, argvs, run, args, cwd,
                   ROOT, config, texmf_dir, texstudio_dir, snap>>

\* lines 185-194
ExtractLists ==
    /\ pc = "lists"
    /\ LET n == get_value(manifest, "name", "str", TRUE, None)
           s == get_value(manifest, "sty", "list", FALSE, <<>>)
           c == get_value(manifest, "cls", "list", FALSE, <<>>)
           r == get_value(manifest, "res", "list", FALSE, <<>>)
       IN  IF ~n.ok THEN Exit(1, n.err) /\ UNCHANGED config
           ELSE IF ~s.ok THEN Exit(1, s.err) /\ UNCHANGED config
           ELSE IF ~c.ok THEN Exit(1, c.err) /\ UNCHANGED config
           ELSE IF ~r.ok THEN Exit(1, r.err) /\ UNCHANGED config
           ELSE /\ config' = [config EXCEPT !.bundle_name = n.val,
                                            !.sty_list = s.val,
                                            !.cls_list = c.val,
                                            !.res_list = r.val]
                /\ Goto("sty-dir")
    /\ UNCHANGED <<fs, dirs, manifest, platform, isAdmin, argvs, run, args, cwd,
                   ROOT, config_file, texmf_dir, texstudio_dir, snap>>

\* lines 197-207
StySourceDir ==
    /\ pc = "sty-dir"
    /\ LET v == get_value(manifest, "sty-dir", "str", FALSE, join(ROOT, <<"texmf">>))
       IN  IF ~v.ok THEN Exit(1, v.err) /\ UNCHANGED config
           ELSE /\ config' = [config EXCEPT !.sty_source_dir = v.val]
                /\ IF Len(config.sty_list) > 0 /\ ~isdir(dirs, v.val)
                   THEN Exit(1, "Must be a directory")
                   ELSE Goto("cls-dir")
    /\ UNCHANGED <<fs, dirs, manifest, platform, isAdmin, argvs, run, args, cwd,
                   ROOT, config_file, texmf_dir, texstudio_dir, snap>>

\* lines 210-219: when the list is not empty and the directory is missing,
\* lines 218-219 print a message and the script goes on
ClsSourceDir ==
    /\ pc = "cls-dir"
    /\ LET v == get_value(manifest, "cls-dir", "str", FALSE, join(ROOT, <<"texmf">>))
       IN  IF ~v.ok THEN Exit(1, v.err) /\ UNCHANGED config
           ELSE /\ config' = [config EXCEPT !.cls_source_dir = v.val]
                /\ Goto("res-dir")
    /\ UNCHANGED <<fs, dirs, manifest, platform, isAdmin, argvs, run, args, cwd,
                   ROOT, config_file, texmf_dir, texstudio_dir, snap>>

\* lines 222-234
ResSourceDir ==
    /\ pc = "res-dir"
    /\ LET v == get_value(manifest, "res-dir", "str", FALSE, join(ROOT, <<"resources">>))
       IN  IF ~v.ok THEN Exit(1, v.err) /\ UNCHANGED config
           ELSE /\ IF ~isdir(dirs, v.val)
                   THEN config' = [config EXCEPT !.res_source_dir = None,
                                                 !.res_list = <<>>]
                   ELSE config' = [config EXCEPT !.res_source_dir = v.val]
                /\ Goto("cwl-dir")
    /\ UNCHANGED <<fs, dirs, manifest, platform, isAdmin, argvs, run, args, cwd,
                   ROOT, config_file, texmf_dir, texstudio_dir, snap>>

\* lines 237-246
CwlSourceDir ==
    /\ pc = "cwl-dir"
    /\ LET v == get_value(manifest, "cwl-dir", "str", FALSE,
                          join(ROOT, <<"autocompletion">>))
       IN  IF ~v.ok THEN Exit(1, v.err) /\ UNCHANGED config
           ELSE /\ config' = [config EXCEPT !.cwl_source_dir =
                                  IF isdir(dirs, v.val) THEN v.val ELSE None]
                /\ Goto("target")
    /\ UNCHANGED <<fs, dirs, manifest, platform, isAdmin, argvs, run, args, cwd,
                   ROOT, config_file, texmf_dir, texstudio_dir, snap>>

\* lines 253-280
TargetDirs ==
    /\ pc = "target"
    /\ IF platform \in {"linux", "linux2"}
       THEN /\ texmf_dir' = join(HOME \o <<"texmf", "tex", "latex">>, config.bundle_name)
            /\ texstudio_dir' = HOME \o <<".config", "texstudio", "completion", "user">>
            /\ Goto("makedirs")
       ELSE IF platform = "windows"
       THEN /\ texmf_dir' = join(HOME \o <<"AppData", "Roaming", "MiKTeX", "latex">>,
                                 config.bundle_name)
            /\ texstudio_dir' = HOME \o <<"AppData", "Roaming", "texstudio",
                                          "completion", "user">>
            /\ Goto("makedirs")
       ELSE IF platform = "darwin"
       THEN /\ texmf_dir' = join(HOME \o <<"Library", "texmf", "tex", "latex">>,
                                 config.bundle_name)
            /\ texstudio_dir' = HOME \o <<".config", "texstudio", "completion", "user">>
            /\ Goto("makedirs")
       ELSE /\ UNCHANGED <<texmf_dir, texstudio_dir>>
            /\ Exit(1, "Unknown platform")
    /\ UNCHANGED <<fs, dirs, manifest, platform, isAdmin, argvs, run, args, cwd,
                   ROOT, config_file, config, snap>>

\* lines 282-283
MakeTargetDirs ==
    /\ pc = "makedirs"
    /\ LET r1 == makedirs(fs, dirs, texmf_dir)
           r2 == IF r1.err # "" THEN r1 ELSE makedirs(r1.fs, r1.dirs, texstudio_dir)
       IN  /\ fs' = r2.fs
           /\ dirs' = r2.dirs
           /\ IF r2.err # "" THEN Exit(1, r2.err) ELSE Goto("method")
    /\ UNCHANGED <<manifest, platform, isAdmin, argvs, run, args, cwd, ROOT,
                   config_file, config, texmf_dir, texstudio_dir, snap>>

\* lines 290-299
SelectMethod ==
    /\ pc = "method"
    /\ IF args.symlink /\ platform = "windows" /\ ~isAdmin
       THEN Exit(1, "Admin privileges are required")
       ELSE Ctl("iter", exitCode, err, 1, 0)
    /\ UNCHANGED <<fs, dirs, manifest, platform, isAdmin, argvs, run, args, cwd,
                   ROOT, config_file, config, texmf_dir, texstudio_dir, snap>>

\* lines 332-338 of the call for category cat
IterFilesBegin ==
    /\ pc = "iter" /\ idx = 0
    /\ IF Category(cat).from_dir = None \/ Len(Category(cat).files) = 0
       THEN Return(cat)
       ELSE Ctl("iter", exitCode, err, cat, 1)
    /\ UNCHANGED <<fs, dirs, manifest, platform, isAdmin, argvs, run, args, cwd,
                   ROOT, config_file, config, texmf_dir, texstudio_dir, snap>>

\* lines 340-356: one pass of the loop when installing
IterInstall ==
    /\ pc = "iter" /\ idx >= 1 /\ idx <= Len(Category(cat).files)
    /\ args.install
    /\ LET source     == SourceOf(cat, idx)
           dest       == DestOf(cat, idx)
           parent_dir == abspath(join(dest, pardir))
           r1         == makedirs(fs, dirs, parent_dir)
           r2         == IF r1.err # "" THEN r1
                         ELSE install_file(r1.fs, r1.dirs, source, dest)
       IN  IF source_missing(fs, source)
           THEN UNCHANGED <<fs, dirs>> /\ Ctl("iter", exitCode, err, cat, idx + 1)
           ELSE /\ fs' = r2.fs
                /\ dirs' = r2.dirs
                /\ IF r2.err # "" THEN Exit(1, r2.err)
                   ELSE Ctl("iter", exitCode, err, cat, idx + 1)
    /\ UNCHANGED <<manifest, platform, isAdmin, argvs, run, args, cwd, ROOT,
                   config_file, config, texmf_dir, texstudio_dir, snap>>

\* lines 340-349, 357-362: one pass of the loop when uninstalling
IterUninstall ==
    /\ pc = "iter" /\ idx >= 1 /\ idx <= Len(Category(cat).files)
    /\ ~args.install /\ args.uninstall
    /\ LET dest == DestOf(cat, idx)
           r    == remove(fs, dirs, dest)
       IN  IF dest_missing(fs, dest)
           THEN UNCHANGED <<fs, dirs>> /\ Ctl("iter", exitCode, err, cat, idx + 1)
           ELSE /\ fs' = r.fs
                /\ dirs' = r.dirs
                /\ IF r.err # "" THEN Exit(1, r.err)
                   ELSE Ctl("iter", exitCode, err, cat, idx + 1)
    /\ UNCHANGED <<manifest, platform, isAdmin, argvs, run, args, cwd, ROOT,
                   config_file, config, texmf_dir, texstudio_dir, snap>>

\* the loop of line 340 is over: iter_files returns
IterFilesEnd ==
    /\ pc = "iter" /\ idx > Len(Category(cat).files)
    /\ Return(cat)
    /\ UNCHANGED <<fs, dirs, manifest, platform, isAdmin, argvs, run, args, cwd,
                   ROOT, config_file, config, texmf_dir, texstudio_dir, snap>>

\* The user starts the script again, on the file system the last run left
NextRun ==
    /\ pc = "exited" /\ run < MaxRuns
    /\ run' = run + 1
    /\ snap' = Append(snap, [fs |-> fs, dirs |-> dirs])
    /\ Ctl("start", 0, "", 0, 0)
    /\ args' = NoArgs
    /\ cwd' = Bundle
    /\ ROOT' = None
    /\ config_file' = None
    /\ config' = NoConfig
    /\ texmf_dir' = None
    /\ texstudio_dir' = None
    /\ UNCHANGED <<fs, dirs, manifest, platform, isAdmin, argvs>>

Next ==
    \/ ParseArgs
    \/ ResolveRoot
    \/ ReadConfig
    \/ ExtractLists
    \/ StySourceDir
    \/ ClsSourceDir
    \/ ResSourceDir
    \/ CwlSourceDir
    \/ TargetDirs
    \/ MakeTargetDirs
    \/ SelectMethod
    \/ IterFilesBegin
    \/ IterInstall
    \/ IterUninstall
    \/ IterFilesEnd
    \/ NextRun

-----------------------------------------------------------------------------
(* The machines and command lines the model starts from *)

\* the destination directories on Linux for the bundle named "x"
T == HOME \o <<"texmf", "tex", "latex", "x">>
U == HOME \o <<".config", "texstudio", "completion", "user">>

Texmf == Append(Bundle, "texmf")
Resources == Append(Bundle, "resources")
Autocompletion == Append(Bundle, "autocompletion")

\* a regular file whose content is named after the place it was created at
Orig(p) == File(p)

\* the file system holding the entries e (path -> entry) and directories d
Disk(e, d) ==
    [fs   |-> [p \in DOMAIN e \cup {ManifestPath} |->
                  IF p = ManifestPath THEN Orig(p) ELSE e[p]],
     dirs |-> UNION { Prefixes(q) : q \in d \cup {Bundle, HOME} }]

\* the files of asg (path -> entry or None) that are there
Present(asg) == [p \in {q \in DOMAIN asg : asg[q] # None} |-> asg[p]]

SourceFiles ==
    {Append(Texmf, "a.sty"), Append(Texmf, "b.sty"), Append(Texmf, "a.cls"),
     Append(Resources, "a.sty"), Append(Autocompletion, "a.cwl")}

dirname(p) == SubSeq(p, 1, Len(p) - 1)

\* Source trees: every file there, or a.sty missing; the optional
\* directories there or not
SourceTrees ==
    { [files |-> {p \in SourceFiles \ m : dirname(p) \in {Texmf} \cup o},
       dirs  |-> {Texmf} \cup o] :
        m \in {{}, {Append(Texmf, "a.sty")}},
        o \in {{Resources, Autocompletion}, {Autocompletion}, {Resources}} }

\* What may occupy the destination paths before the first run: nothing, a
\* regular file, a link left by an earlier symlink install, a dangling link
\* into an existing or into a missing directory
DestStates ==
    { (Append(T, "a.sty") :> x) @@ (Append(T, "b.sty") :> y) @@ (Append(U, "a.cwl") :> z) :
        x \in {None, Orig(Append(T, "a.sty")), Link(Append(Texmf, "a.sty")),
               Link(Append(T, "z")), Link(<<"/", "w", "old", "a.sty">>)},
        y \in {None, Orig(Append(T, "b.sty"))},
        z \in {None, Orig(Append(U, "a.cwl"))} }

\* Machines for the runs that touch files: the destination directories
\* missing, or there with DestStates in them
FileDisks ==
    { Disk([p \in t.files |-> Orig(p)], t.dirs) : t \in SourceTrees }
    \cup
    { Disk(Present(ds) @@ [p \in t.files |-> Orig(p)], t.dirs \cup {T, U}) :
        t \in SourceTrees, ds \in DestStates }

\* Manifests of the runs that touch files; with sty-dir or res-dir set to
\* the destination directory an entry's source and destination coincide
FileManifests ==
    { ("name" :> Str(<<"x">>)) @@ ("sty" :> List(s)) @@ c @@ r @@ d :
        s \in {<<"a">>, <<"a", "a">>, <<"a", "b">>},
        c \in {<<>>, "cls" :> List(<<"a">>)},
        r \in {<<>>, "res" :> List(<<"a.sty">>)},
        d \in {<<>>, "sty-dir" :> Str(T), "res-dir" :> Str(T)} }

DefaultFile == <<"texbundle.json">>

\* install, then install or uninstall again, both in the same mode
FileArgvs ==
    { <<Argv(TRUE, FALSE, s, DefaultFile)>>
        \o [n \in 1..(MaxRuns - 1) |-> Argv(i, ~i, s, DefaultFile)] :
        s \in BOOLEAN, i \in BOOLEAN }

InitFiles ==
    /\ \E k \in FileDisks : fs = k.fs /\ dirs = k.dirs
    /\ manifest \in FileManifests
    /\ platform = "linux"
    /\ isAdmin = FALSE
    /\ argvs \in FileArgvs

\* Manifests for the start of the script: well-formed ones, one without
\* name, and one per key with a value of the wrong type
Valid == ("name" :> Str(<<"x">>)) @@ ("sty" :> List(<<"a">>)) @@ ("cls" :> List(<<"a">>))

StartManifests ==
    { Valid,
      ("name" :> Str(<<"x">>)),
      ("name" :> Str(<<"x">>)) @@ ("cls" :> List(<<"a">>)),
      ("sty-dir" :> Str(<<"nowhere">>)) @@ ("cwl-dir" :> Str(<<"nowhere">>)) @@ Valid,
      ("cls-dir" :> Str(<<"/", "w", "nowhere">>)) @@ ("res-dir" :> Str(<<"texmf">>))
          @@ ("res" :> List(<<"a.sty">>)) @@ Valid,
      ("sty" :> List(<<"a">>)),
      ("name" :> Num) @@ Valid,
      ("name" :> List(<<"x">>)) @@ Valid }
    \cup { (k :> Num) @@ Valid : k \in Keys \ {"name"} }
    \cup { (k :> Str(<<"a">>)) @@ Valid : k \in {"sty", "cls", "res"} }
    \cup { (k :> List(<<"a">>)) @@ Valid : k \in {"sty-dir", "cls-dir", "res-dir", "cwl-dir"} }

\* Machines for the start of the script: the bundle's tree complete, or
\* without its texmf directory
StartDisks ==
    { Disk([p \in t.files |-> Orig(p)], t.dirs) :
        t \in { [files |-> SourceFiles, dirs |-> {Texmf, Resources, Autocompletion}],
                [files |-> {}, dirs |-> {}] } }

Platforms == {"linux", "linux2", "darwin", "windows", "win32"}

\* the manifest file, the directory holding it, a file that is not there
FileChoices == {DefaultFile, Bundle, <<"/", "w", "nowhere.json">>, <<"nowhere", "texbundle.json">>}

StartArgvs ==
    { <<a>> \o [n \in 1..(MaxRuns - 1) |-> Argv(TRUE, FALSE, FALSE, DefaultFile)] :
        a \in {NoArgv} \cup
              { Argv(i, u, s, f) : i \in BOOLEAN, u \in BOOLEAN, s \in BOOLEAN,
                                   f \in FileChoices } }

InitStart ==
    /\ \E k \in StartDisks : fs = k.fs /\ dirs = k.dirs
    /\ manifest \in StartManifests
    /\ platform \in Platforms
    /\ isAdmin \in BOOLEAN
    /\ argvs \in StartArgvs

Init ==
    /\ (InitFiles \/ InitStart)
    /\ run = 1
    /\ pc = "start"
    /\ exitCode = 0
    /\ err = ""
    /\ args = NoArgs
    /\ cwd = Bundle
    /\ ROOT = None
    /\ config_file = None
    /\ config = NoConfig
    /\ texmf_dir = None
    /\ texstudio_dir = None
    /\ cat = 0
    /\ idx = 0
    /\ snap = <<[fs |-> fs, dirs |-> dirs]>>

Spec == Init /\ [][Next]_vars

-----------------------------------------------------------------------------
(* Vocabulary of the properties *)

\* the run ended with exit status 0 after its last iter_files call
Completed == pc = "exited" /\ exitCode = 0 /\ err = ""

\* the configuration was found and read
Loaded == pc \notin {"start", "root", "read"} /\ config_file # None
          /\ isfile(snap[run].fs, config_file)

\* the target directories are known and the loops may have started
Iterating == cat >= 1

InstallRun(r) == ~argvs[r].empty /\ argvs[r].install
UninstallRun(r) == ~argvs[r].empty /\ ~argvs[r].install /\ argvs[r].uninstall

\* the entries iter_files loops over: <<call, position>>
Processed ==
    UNION { { <<c, i>> : i \in 1..Len(Category(c).files) } :
              c \in { k \in 1..NumCategories : Category(k).from_dir # None } }

Later(e, g) == g[1] > e[1] \/ (g[1] = e[1] /\ g[2] > e[2])

\* what a path holds: None, or its file or link
At(f, p) == IF p \in DOMAIN f THEN f[p] ELSE [kind |-> "none", content |-> None]

\* the bytes read through a name that is a regular file
Content(f, p) == f[follow(f, p, MaxLinkDepth)].content

InDestDirs(p) == dirname(p) \in {texmf_dir, texstudio_dir}

ExpectedType(k) == IF k \in {"sty", "cls", "res"} THEN "list" ELSE "str"

\* The manifest leaves the four source directories at their defaults and
\* no symbolic link was on the machine when run r started
PlainSetup(r) ==
    /\ DOMAIN manifest \cap {"sty-dir", "cls-dir", "res-dir", "cwl-dir"} = {}
    /\ \A p \in DOMAIN snap[r].fs : snap[r].fs[p].kind = "file"

BadManifest ==
    \/ "name" \notin DOMAIN manifest
    \/ \E k \in DOMAIN manifest \cap Keys : manifest[k].type # ExpectedType(k)

-----------------------------------------------------------------------------
(* C5 *)

\* C5: when the manifest that was read has no name key, or has one of the
\* eight keys with a value of the wrong type, the run never gets past the
\* extraction of the fields, ends with exit status 1 if it ended, and the
\* file system is as it was when the run started.
C5_BadManifestAborts ==
    (BadManifest /\ Loaded) =>
        /\ pc \in {"lists", "sty-dir", "cls-dir", "res-dir", "cwl-dir", "exited"}
        /\ (pc = "exited" => exitCode = 1)
        /\ fs = snap[run].fs
        /\ dirs = snap[run].dirs

\* C5 witness: a run that got through seven well-typed keys was ended by
\* the type of cwl-dir, on a machine without the destination directories
C5_Witness ==
    /\ Loaded /\ pc = "exited" /\ err = "Expected type"
    /\ "cwl-dir" \in DOMAIN manifest /\ manifest["cwl-dir"].type # "str"
    /\ \A k \in DOMAIN manifest \ {"cwl-dir"} : manifest[k].type = ExpectedType(k)
    /\ T \notin dirs

-----------------------------------------------------------------------------
(* C6, C7, C8 *)

StyDirMissing ==
    /\ Len(config.sty_list) > 0
    /\ config.sty_source_dir # None
    /\ ~isdir(snap[run].dirs, config.sty_source_dir)

ClsDirMissing ==
    /\ Len(config.cls_list) > 0
    /\ config.cls_source_dir # None
    /\ ~isdir(snap[run].dirs, config.cls_source_dir)

\* C6: for sty and for cls, in a run given the manifest file itself, once
\* the category's source directory is known, is missing and the category's
\* list is not empty, the run has ended with exit status 1 and the file
\* system is as it was when the run started.
C6_MissingSourceDirAborts ==
    (args.file = ManifestPath /\ (StyDirMissing \/ ClsDirMissing)) =>
        /\ pc = "exited"
        /\ exitCode = 1
        /\ fs = snap[run].fs
        /\ dirs = snap[run].dirs

\* C7: on Windows in symlink mode without administrator rights, nothing of
\* the file system has changed since the run started, and a run that ended
\* ended with exit status 1.
C7_AdminCheckBeforeFilesystem ==
    (platform = "windows" /\ ~argvs[run].empty /\ argvs[run].symlink /\ ~isAdmin) =>
        /\ fs = snap[run].fs
        /\ dirs = snap[run].dirs
        /\ (pc = "exited" => exitCode = 1)

\* C8: once the configuration is read, ROOT and the working directory are
\* the directory holding the file it was read from, and a default source
\* directory is texmf, resources or autocompletion directly under it.
C8_RootHoldsManifest ==
    Loaded =>
        /\ ROOT = dirname(config_file)
        /\ cwd = dirname(config_file)
        /\ (pc \in {"target", "makedirs", "method", "iter"} =>
              /\ "sty-dir" \notin DOMAIN manifest =>
                    config.sty_source_dir = Append(dirname(config_file), "texmf")
              /\ "cls-dir" \notin DOMAIN manifest =>
                    config.cls_source_dir = Append(dirname(config_file), "texmf")
              /\ "res-dir" \notin DOMAIN manifest =>
                    config.res_source_dir \in
                        {None, Append(dirname(config_file), "resources")}
              /\ "cwl-dir" \notin DOMAIN manifest =>
                    config.cwl_source_dir \in
                        {None, Append(dirname(config_file), "autocompletion")})

-----------------------------------------------------------------------------
(* C9, C10, C2 *)

\* the loop of an install run is about to handle an entry whose source is
\* a regular file
InstallPass ==
    /\ pc = "iter" /\ idx >= 1 /\ idx <= Len(Category(cat).files)
    /\ args.install
    /\ isfile(fs, SourceOf(cat, idx))

\* C9: in symlink mode, when the destination path of the entry being
\* installed is occupied by a regular file, a live link or a dangling
\* link, the pass ends without error and leaves at the destination a link
\* to the resolved source path.
C9_SymlinkReplacesAnything ==
    [][ (InstallPass /\ args.symlink /\ DestOf(cat, idx) \in DOMAIN fs) =>
            /\ pc' = "iter"
            /\ DestOf(cat, idx) \in DOMAIN fs'
            /\ fs'[DestOf(cat, idx)] = Link(SourceOf(cat, idx)) ]_vars

\* the directories the run reads the bundle's files from
SourceDirs ==
    { Category(c).from_dir : c \in 1..NumCategories } \ {None}

\* C10: during and after an install run, every file that was in one of the
\* bundle's source directories when the run started is still there,
\* unchanged.
C10_InstallKeepsSources ==
    (InstallRun(run) /\ Iterating) =>
        \A p \in DOMAIN snap[run].fs :
            dirname(p) \in SourceDirs =>
                p \in DOMAIN fs /\ fs[p] = snap[run].fs[p]

\* C2: when an install run is followed by a second install run with the
\* same manifest and mode, the second run ends with the file system the
\* first run left.
C2_InstallIdempotent ==
    (run = 2 /\ pc = "exited" /\ InstallRun(1) /\ InstallRun(2)
        /\ argvs[1].symlink = argvs[2].symlink /\ argvs[1].file = argvs[2].file) =>
        /\ fs = snap[2].fs
        /\ dirs = snap[2].dirs

-----------------------------------------------------------------------------
(* C1 *)

ProcessedDests == { DestOf(e[1], e[2]) : e \in Processed }

InstallThenUninstall ==
    run = 2 /\ pc = "exited" /\ InstallRun(1) /\ UninstallRun(2)

\* C1 as stated, on a plain setup: after an install run and an uninstall
\* run with the same manifest, every path of the destination directories
\* holds what it held before the install run.
C1_DestinationRestored ==
    (InstallThenUninstall /\ PlainSetup(1)) =>
        \A p \in DOMAIN fs \cup DOMAIN snap[1].fs :
            InDestDirs(p) => At(fs, p) = At(snap[1].fs, p)

\* C1 amended: after an install run and an uninstall run with the same
\* manifest, the uninstall run ending with exit status 0, every file that
\* was in the destination directories before the install run and is not at
\* the destination path of an entry the run processed is still there with
\* the content it had, and no destination path of a processed entry is a
\* regular file.
C1_OthersKeptEntriesGone ==
    (InstallThenUninstall /\ Completed) =>
        /\ \A p \in DOMAIN snap[1].fs :
              (InDestDirs(p) /\ p \notin ProcessedDests) =>
                  p \in DOMAIN fs /\ fs[p] = snap[1].fs[p]
        /\ \A p \in ProcessedDests : ~isfile(fs, p)

\* C1 witness: the two runs are over; a file of the destination directory
\* that no entry names is still there, and a file the install run added
\* is gone
C1_Witness ==
    /\ InstallThenUninstall /\ Completed
    /\ \E p \in DOMAIN snap[1].fs \cap DOMAIN fs :
          InDestDirs(p) /\ p \notin ProcessedDests
    /\ \E p \in ProcessedDests :
          p \in DOMAIN snap[2].fs /\ p \notin DOMAIN snap[1].fs /\ p \notin DOMAIN fs

-----------------------------------------------------------------------------
(* C3 *)

\* what install_file is meant to leave at the destination of entry e
Installed(e) ==
    IF args.symlink THEN Link(SourceOf(e[1], e[2]))
    ELSE File(Content(snap[run].fs, SourceOf(e[1], e[2])))

BothExist(e) ==
    /\ isfile(snap[run].fs, SourceOf(e[1], e[2]))
    /\ isfile(snap[run].fs, DestOf(e[1], e[2]))

\* a later entry of the run has the destination of e and another source
Overridden(e) ==
    \E g \in Processed :
        /\ Later(e, g)
        /\ DestOf(g[1], g[2]) = DestOf(e[1], e[2])
        /\ SourceOf(g[1], g[2]) # SourceOf(e[1], e[2])

\* C3 as stated, on a plain setup: when an install run completed, the
\* destination of every entry whose source and destination were regular
\* files when the run started holds a copy of that entry's source (copy
\* mode) or a link to that entry's source path (symlink mode).
C3_ExistingDestReplaced ==
    (InstallRun(run) /\ Completed /\ PlainSetup(run)) =>
        \A e \in Processed :
            BothExist(e) => At(fs, DestOf(e[1], e[2])) = Installed(e)

\* C3 amended: the same, for every entry that no later entry of the run
\* overrides, that is, no later entry resolves to the same destination
\* path from a different source path.
C3_LastEntryReplacesDest ==
    (InstallRun(run) /\ Completed) =>
        \A e \in Processed :
            (BothExist(e) /\ ~Overridden(e)) =>
                At(fs, DestOf(e[1], e[2])) = Installed(e)

\* C3 witness: a copy-mode install run completed, and a destination that
\* held a file of its own before the run now holds the source's content
C3_Witness ==
    /\ InstallRun(run) /\ Completed /\ ~args.symlink
    /\ \E e \in Processed :
          /\ BothExist(e) /\ ~Overridden(e)
          /\ snap[run].fs[DestOf(e[1], e[2])] = Orig(DestOf(e[1], e[2]))
          /\ fs[DestOf(e[1], e[2])] = Orig(SourceOf(e[1], e[2]))
          /\ SourceOf(e[1], e[2]) # DestOf(e[1], e[2])

-----------------------------------------------------------------------------
(* C4 *)

\* C4 as stated, on a plain setup: in an install run, the destination path
\* of every entry whose source was no regular file when the run started
\* holds what it held then, and the run did not end in an error at that
\* entry.
C4_MissingSourceDestUntouched ==
    (InstallRun(run) /\ Iterating /\ PlainSetup(run)) =>
        \A e \in Processed :
            ~isfile(snap[run].fs, SourceOf(e[1], e[2])) =>
                /\ At(fs, DestOf(e[1], e[2])) = At(snap[run].fs, DestOf(e[1], e[2]))
                /\ ~(pc = "exited" /\ exitCode = 1 /\ <<cat, idx>> = e)

\* C4 amended: the pass of the install loop over an entry whose source is
\* no regular file raises no error and changes nothing in the file system;
\* the loop goes on with the next entry.
C4_MissingSourcePassSkips ==
    [][ (pc = "iter" /\ idx >= 1 /\ idx <= Len(Category(cat).files)
            /\ args.install /\ ~isfile(fs, SourceOf(cat, idx))) =>
            /\ fs' = fs
            /\ dirs' = dirs
            /\ pc' = "iter" /\ cat' = cat /\ idx' = idx + 1 ]_vars

\* C4 witness: the install loop has just passed an entry whose source is
\* missing and whose destination path is occupied
C4_Witness ==
    /\ pc = "iter" /\ args.install /\ idx >= 2
    /\ idx - 1 <= Len(Category(cat).files)
    /\ ~isfile(fs, SourceOf(cat, idx - 1))
    /\ DestOf(cat, idx - 1) \in DOMAIN fs
    /\ fs = snap[run].fs

=============================================================================
